---- MODULE Spec2Model ----
(***************************************************************************)
(* Model of modbus_client.go: a command-line Modbus TCP client.  main      *)
(* parses the flags, creates the client handler, dispatches on the         *)
(* operation name and runs one of five repeat loops (one shared by the     *)
(* four reads, one per write).  The goburrow/modbus client is the          *)
(* environment: every primitive returns either an error or a result of     *)
(* its own choosing.                                                       *)
(***************************************************************************)
EXTENDS Integers, Sequences, FiniteSets, TLC

VARIABLES
    flags,      \* the command line as pflag.Parse leaves it (never changes)
    args,       \* *ModbusArgs built by parseFlags
    pc,         \* position of the single goroutine
    fatalMsg,   \* message of the log.Fatal/log.Fatalf that ended the process
    handler,    \* *modbus.TCPClientHandler: "none", "created", "closed"
    connOpen,   \* TRUE while the handler holds an open TCP connection
    closeCalls, \* number of handler.Close() calls
    data,       \* the data block built by writeMultipleCoils/Registers
    i,          \* loop variable of the running repeat loop
    inFlight,   \* number of transport calls issued and not yet returned
    lastCall,   \* the transport call of the current/last iteration
    err,        \* err returned by the last transport call
    response,   \* response returned by the last read primitive
    lastLog,    \* the line log.Printf printed in the current iteration
    requests,   \* number of transport calls issued        (saturating)
    reports,    \* number of log.Printf outcomes           (saturating)
    sleeps      \* number of completed time.Sleep calls    (saturating)

vars == <<flags, args, pc, fatalMsg, handler, connOpen, closeCalls, data, i,
          inFlight, lastCall, err, response, lastLog, requests, reports, sleeps>>

----------------------------------------------------------------------------
(* Bounds of the model *)

MaxRepeat == 2       \* --repeat ranges over -1..MaxRepeat
MaxCount == 2        \* --count ranges over 1..MaxCount
MaxValues == 2       \* --values holds at most MaxValues entries
MaxPayloadLen == 4   \* a read response holds at most MaxPayloadLen bytes

\* Counters of loops that never end (repeat <= 0) saturate here; a bounded
\* loop never reaches it.
CounterCap == MaxRepeat + 1

\* decimal strings given to --value / --values, written as the integers they
\* denote
ValueInputs == {-1, 1, 40000}

\* byte values the server may put in a response
Bytes == {0, 128, 255}

\* what lies behind the end of a response slice in its backing array
\* (cap(response) - len(response) bytes)
Tails == {<<>>, <<0>>, <<255>>}

StartInputs == {7}

----------------------------------------------------------------------------
(* Names *)

ReadOperations ==
    {"read_coils", "read_discrete_inputs", "read_holding_registers", "read_input_registers"}

SingleWriteOperations == {"write_single_coil", "write_single_register"}

MultiWriteOperations == {"write_multiple_coils", "write_multiple_registers"}

Operations == ReadOperations \cup SingleWriteOperations \cup MultiWriteOperations

\* states in which the process no longer runs
Terminated == {"exited", "crashed", "fatal", "killed"}

SeqsUpTo(S, n) == UNION {[1..k -> S] : k \in 0..n}

Inc(c) == IF c < CounterCap THEN c + 1 ELSE c

NoCall == [prim |-> "none", address |-> 0, quantity |-> 0, value |-> 0, data |-> <<>>]

NoResponse == [data |-> <<>>, tail |-> <<>>]

NoLog == [kind |-> "none", values |-> <<>>]

----------------------------------------------------------------------------
(* Integer conversions and string parsing of the Go library, as parseFlags *)
(* and the codec loops use them                                             *)

\* strconv.ParseInt(s, 10, 16): a range error outside [-32768, 32767]
ParseInt16(s) == [ok |-> s >= -32768 /\ s <= 32767, value |-> s]

\* strconv.ParseUint(s, 10, 16): a syntax error on a sign, a range error
\* above 65535
ParseUint16(s) == [ok |-> s >= 0 /\ s <= 65535, value |-> s]

\* uint16(value): keeps the low 16 bits
Uint16(v) == v % 65536

\* uint16(value & 0xFFFF) on an int64: the two's-complement bit pattern
MaskUint16(v) == Uint16(v % 65536)

\* Int16 with the sign boundary off by one (0x8000 read as positive)
Int16_SignBoundaryOff(w) == IF w > 32768 THEN w - 65536 ELSE w

\* int16(w) for a uint16 w: the same 16 bits read as two's complement
Int16(w) == IF w >= 32768 THEN w - 65536 ELSE w

\* binary.BigEndian.Uint16(b): b[0] is the high byte
BigEndianUint16(b0, b1) == b0 * 256 + b1

\* PutUint16 in little-endian order
PutUint16_LittleEndian(v) == <<v % 256, v \div 256>>

\* binary.BigEndian.PutUint16(b, v): the two bytes written
PutUint16(v) == <<v \div 256, v % 256>>

----------------------------------------------------------------------------
(* parseFlags *)

DefaultValue == 0
DefaultCount == 1

\* Command lines considered.  A flag the chosen operation never reads is
\* left at its default; an empty --server comes with defaults only.
CommandLines ==
    {f \in [server : {"", "plc"}, operation : Operations \cup {"read_foo"},
            start : StartInputs, count : 1..MaxCount, repeat : -1..MaxRepeat,
            unsigned : BOOLEAN, value : ValueInputs \cup {DefaultValue},
            values : SeqsUpTo(ValueInputs, MaxValues)] :
        /\ f.operation \notin ReadOperations => f.count = DefaultCount
        /\ f.operation \notin SingleWriteOperations => f.value = DefaultValue
        /\ f.operation \notin MultiWriteOperations => f.values = <<>>
        /\ f.server = "" =>
              /\ f.operation = "read_coils" /\ f.repeat = 1 /\ ~f.unsigned
              /\ f.count = DefaultCount /\ f.value = DefaultValue /\ f.values = <<>>}

\* lines 55-67: args.Value from --value
ParseValue(s, unsigned) ==
    IF unsigned
    THEN [ok |-> ParseUint16(s).ok, value |-> Uint16(ParseUint16(s).value)]
    ELSE [ok |-> ParseInt16(s).ok, value |-> MaskUint16(ParseInt16(s).value)]

\* lines 70-85: args.Values from --values (reached only when every entry parses)
ParseValues(strs, unsigned) ==
    [ok |-> \A k \in 1..Len(strs) : ParseValue(strs[k], unsigned).ok,
     values |-> [k \in 1..Len(strs) |-> ParseValue(strs[k], unsigned).value]]

ZeroArgs ==
    [Operation |-> "", Start |-> 0, Count |-> 0, Value |-> 0, Values |-> <<>>,
     Repeat |-> 0, Unsigned |-> FALSE]

Fatal(msg) ==
    /\ pc' = "fatal"
    /\ fatalMsg' = msg

parseFlags ==
    /\ pc = "parseFlags"
    /\ IF flags.server = ""
       THEN Fatal("Server address is required") /\ UNCHANGED args
       ELSE IF ~ParseValue(flags.value, flags.unsigned).ok
       THEN Fatal("Invalid value") /\ UNCHANGED args
       ELSE IF ~ParseValues(flags.values, flags.unsigned).ok
       THEN Fatal("Invalid value in 'values'") /\ UNCHANGED args
       ELSE /\ args' = [Operation |-> flags.operation, Start |-> flags.start,
                        Count |-> flags.count,
                        Value |-> ParseValue(flags.value, flags.unsigned).value,
                        Values |-> ParseValues(flags.values, flags.unsigned).values,
                        Repeat |-> flags.repeat, Unsigned |-> flags.unsigned]
            /\ pc' = "createModbusClient"
            /\ UNCHANGED fatalMsg
    /\ UNCHANGED <<flags, handler, connOpen, closeCalls, data, i, inFlight,
                   lastCall, err, response, lastLog, requests, reports, sleeps>>

----------------------------------------------------------------------------
(* main: client creation and dispatch *)

\* line 95, lines 122-129: the handler and the client are built; nothing is
\* sent.  The deferred handler.Close() of line 96 is registered here.
createModbusClient ==
    /\ pc = "createModbusClient"
    /\ handler' = "created"
    /\ pc' = "switch"
    /\ UNCHANGED <<flags, args, fatalMsg, connOpen, closeCalls, data, i, inFlight,
                   lastCall, err, response, lastLog, requests, reports, sleeps>>

\* lines 100-107: the function code main hands to performReadOperation
FunctionCode(operation) ==
    CASE operation = "read_coils" -> "FuncCodeReadCoils"
      [] operation = "read_discrete_inputs" -> "FuncCodeReadDiscreteInputs"
      [] operation = "read_holding_registers" -> "FuncCodeReadHoldingRegisters"
      [] operation = "read_input_registers" -> "FuncCodeReadInputRegisters"
      [] OTHER -> "none"

\* ReadPrimitive with a copied case: discrete inputs are read as coils
ReadPrimitive_CopiedCase(functionCode) ==
    CASE functionCode = "FuncCodeReadCoils" -> "ReadCoils"
      [] functionCode = "FuncCodeReadDiscreteInputs" -> "ReadCoils"
      [] functionCode = "FuncCodeReadHoldingRegisters" -> "ReadHoldingRegisters"
      [] functionCode = "FuncCodeReadInputRegisters" -> "ReadInputRegisters"
      [] OTHER -> "none"

\* lines 137-146: the primitive performReadOperation calls for a function code
ReadPrimitive(functionCode) ==
    CASE functionCode = "FuncCodeReadCoils" -> "ReadCoils"
      [] functionCode = "FuncCodeReadDiscreteInputs" -> "ReadDiscreteInputs"
      [] functionCode = "FuncCodeReadHoldingRegisters" -> "ReadHoldingRegisters"
      [] functionCode = "FuncCodeReadInputRegisters" -> "ReadInputRegisters"
      [] OTHER -> "none"

\* lines 200-203 and 219-222: the data block, two big-endian bytes per value
EncodeValues(values) ==
    [k \in 1..(2 * Len(values)) |-> PutUint16(values[(k + 1) \div 2])[2 - (k % 2)]]

\* lines 99-115: a supported name enters its loop function with i = 0; the
\* two multi-write functions build their data block first
switchOperation ==
    /\ pc = "switch"
    /\ args.Operation \in Operations
    /\ data' = IF args.Operation \in MultiWriteOperations
               THEN EncodeValues(args.Values) ELSE <<>>
    /\ i' = 0
    /\ pc' = "for"
    /\ UNCHANGED <<flags, args, fatalMsg, handler, connOpen, closeCalls, inFlight,
                   lastCall, err, response, lastLog, requests, reports, sleeps>>

\* switchDefault without the default branch: an unknown name falls through
\* the switch and main returns
switchDefault_FallsThrough ==
    /\ pc = "switch"
    /\ args.Operation \notin Operations
    /\ pc' = "return"
    /\ UNCHANGED <<flags, args, fatalMsg, handler, connOpen, closeCalls, data, i,
                   inFlight, lastCall, err, response, lastLog, requests, reports, sleeps>>

\* lines 116-117: log.Fatalf exits the process; deferred calls do not run
switchDefault ==
    /\ pc = "switch"
    /\ args.Operation \notin Operations
    /\ Fatal("Invalid operation")
    /\ UNCHANGED <<flags, args, handler, connOpen, closeCalls, data, i, inFlight,
                   lastCall, err, response, lastLog, requests, reports, sleeps>>

----------------------------------------------------------------------------
(* The repeat loops (lines 133, 172, 186, 205, 224 share one shape) *)

\* the loop condition `repeat <= 0 || i < repeat`
LoopCondition(repeat, n) == repeat <= 0 \/ n < repeat

forTest ==
    /\ pc = "for"
    /\ pc' = IF LoopCondition(args.Repeat, i) THEN "call" ELSE "return"
    /\ UNCHANGED <<flags, args, fatalMsg, handler, connOpen, closeCalls, data, i,
                   inFlight, lastCall, err, response, lastLog, requests, reports, sleeps>>

\* the transport call each loop body makes
TransportCall(a, block) ==
    CASE a.Operation \in ReadOperations ->
            [prim |-> ReadPrimitive(FunctionCode(a.Operation)), address |-> a.Start,
             quantity |-> a.Count, value |-> 0, data |-> <<>>]
      [] a.Operation = "write_single_coil" ->
            [prim |-> "WriteSingleCoil", address |-> a.Start, quantity |-> 0,
             value |-> a.Value, data |-> <<>>]
      [] a.Operation = "write_single_register" ->
            [prim |-> "WriteSingleRegister", address |-> a.Start, quantity |-> 0,
             value |-> a.Value, data |-> <<>>]
      [] a.Operation = "write_multiple_coils" ->
            [prim |-> "WriteMultipleCoils", address |-> a.Start,
             quantity |-> Uint16(Len(a.Values)), value |-> 0, data |-> block]
      [] a.Operation = "write_multiple_registers" ->
            [prim |-> "WriteMultipleRegisters", address |-> a.Start,
             quantity |-> Uint16(Len(a.Values)), value |-> 0, data |-> block]

\* callTransport whose address moves on with the loop counter
callTransport_AddressDrifts ==
    /\ pc = "call"
    /\ lastCall' = [TransportCall(args, data) EXCEPT !.address = @ + i]
    /\ inFlight' = inFlight + 1
    /\ requests' = Inc(requests)
    /\ pc' = "wait"
    /\ UNCHANGED <<flags, args, fatalMsg, handler, connOpen, closeCalls, data, i,
                   err, response, lastLog, reports, sleeps>>

\* callTransport that forces a coil value to the Modbus convention
\* (0x0000 stays, anything else becomes 0xFF00)
callTransport_NormalisesCoil ==
    /\ pc = "call"
    /\ lastCall' = IF args.Operation = "write_single_coil"
                   THEN [TransportCall(args, data) EXCEPT !.value = IF @ = 0 THEN 0 ELSE 65280]
                   ELSE TransportCall(args, data)
    /\ inFlight' = inFlight + 1
    /\ requests' = Inc(requests)
    /\ pc' = "wait"
    /\ UNCHANGED <<flags, args, fatalMsg, handler, connOpen, closeCalls, data, i,
                   err, response, lastLog, reports, sleeps>>

\* the blocking call is entered: the request goes to the transport
callTransport ==
    /\ pc = "call"
    /\ lastCall' = TransportCall(args, data)
    /\ inFlight' = inFlight + 1
    /\ requests' = Inc(requests)
    /\ pc' = "wait"
    /\ UNCHANGED <<flags, args, fatalMsg, handler, connOpen, closeCalls, data, i,
                   err, response, lastLog, reports, sleeps>>

\* responses a read primitive may hand back: the slice and what follows it
\* in its backing array
Responses == [data : SeqsUpTo(Bytes, MaxPayloadLen), tail : Tails]

\* the call returns an error; the connection may or may not be left open
transportError ==
    /\ pc = "wait"
    /\ err' = TRUE
    /\ response' = NoResponse
    /\ connOpen' \in BOOLEAN
    /\ inFlight' = inFlight - 1
    /\ pc' = "log"
    /\ UNCHANGED <<flags, args, fatalMsg, handler, closeCalls, data, i, lastCall,
                   lastLog, requests, reports, sleeps>>

\* the call returns without error; a read returns a payload of the server's
\* choosing, a write result is discarded
transportSuccess ==
    /\ pc = "wait"
    /\ err' = FALSE
    /\ IF args.Operation \in ReadOperations
       THEN response' \in Responses
       ELSE response' = NoResponse
    /\ connOpen' = TRUE
    /\ inFlight' = inFlight - 1
    /\ pc' = "log"
    /\ UNCHANGED <<flags, args, fatalMsg, handler, closeCalls, data, i, lastCall,
                   lastLog, requests, reports, sleeps>>

----------------------------------------------------------------------------
(* performReadOperation: decoding of a read response *)

\* lines 154 and 160: the stored value of one word
DecodeWord(w, unsigned) == IF unsigned THEN w ELSE Int16(w)

\* lines 153-155 and 159-161: `for i := 0; i < len(response); i += 2` over
\* values = make(.., count).  response[i:i+2] panics when i+2 exceeds the
\* capacity, values[i/2] panics when i/2 >= count.
RECURSIVE DecodeLoop(_, _, _, _)
DecodeLoop(values, n, resp, unsigned) ==
    IF n >= Len(resp.data)
    THEN [panic |-> FALSE, values |-> values]
    ELSE IF n + 2 > Len(resp.data) + Len(resp.tail)
    THEN [panic |-> TRUE, values |-> values]
    ELSE IF n \div 2 >= Len(values)
    THEN [panic |-> TRUE, values |-> values]
    ELSE DecodeLoop(
            [values EXCEPT ![n \div 2 + 1] =
                DecodeWord(BigEndianUint16((resp.data \o resp.tail)[n + 1],
                                           (resp.data \o resp.tail)[n + 2]), unsigned)],
            n + 2, resp, unsigned)

\* Decode that sizes the result by the payload: make([]T, len(response)/2)
Decode_SizedByPayload(resp, count, unsigned) ==
    DecodeLoop([k \in 1..(Len(resp.data) \div 2) |-> 0], 0, resp, unsigned)

\* lines 152 and 158: make([]T, count) is count zeros
Decode(resp, count, unsigned) == DecodeLoop([k \in 1..count |-> 0], 0, resp, unsigned)

\* the log.Printf of a successful iteration
SuccessLog(a, values) ==
    CASE a.Operation \in ReadOperations ->
            [kind |-> IF a.Unsigned THEN "Read response (unsigned)"
                                    ELSE "Read response (signed)",
             values |-> values]
      [] a.Operation = "write_single_coil" ->
            [kind |-> "Successfully wrote single coil", values |-> <<a.Value>>]
      [] a.Operation = "write_single_register" ->
            [kind |-> "Successfully wrote single register", values |-> <<a.Value>>]
      [] a.Operation = "write_multiple_coils" ->
            [kind |-> "Successfully wrote multiple coils", values |-> a.Values]
      [] a.Operation = "write_multiple_registers" ->
            [kind |-> "Successfully wrote multiple registers", values |-> a.Values]

\* the log.Printf of an iteration whose call returned an error
ErrorLog(a) ==
    [kind |-> IF a.Operation \in ReadOperations THEN "Error during read operation"
                                                ELSE "Error during write operation",
     values |-> <<>>]

ErrorKinds == {"Error during read operation", "Error during write operation"}

\* logError that gives up on the first error: it prints and returns from the
\* loop function
logError_Aborts ==
    /\ pc = "log"
    /\ err
    /\ lastLog' = [kind |-> IF args.Operation \in ReadOperations
                            THEN "Error during read operation"
                            ELSE "Error during write operation",
                   values |-> <<>>]
    /\ reports' = Inc(reports)
    /\ pc' = "return"
    /\ UNCHANGED <<flags, args, fatalMsg, handler, connOpen, closeCalls, data, i,
                   inFlight, lastCall, err, response, requests, sleeps>>

\* logError that `continue`s after printing: the sleep is skipped and the
\* post statement i++ runs
logError_SkipsSleep ==
    /\ pc = "log"
    /\ err
    /\ lastLog' = NoLog
    /\ reports' = Inc(reports)
    /\ i' = Inc(i)
    /\ pc' = "for"
    /\ UNCHANGED <<flags, args, fatalMsg, handler, connOpen, closeCalls, data,
                   inFlight, lastCall, err, response, requests, sleeps>>

\* lines 148-149 and the `if err != nil` of every write loop
logError ==
    /\ pc = "log"
    /\ err
    /\ lastLog' = ErrorLog(args)
    /\ reports' = Inc(reports)
    /\ pc' = "sleep"
    /\ UNCHANGED <<flags, args, fatalMsg, handler, connOpen, closeCalls, data, i,
                   inFlight, lastCall, err, response, requests, sleeps>>

\* the else branch of a write loop
logWriteSuccess ==
    /\ pc = "log"
    /\ ~err
    /\ args.Operation \notin ReadOperations
    /\ lastLog' = SuccessLog(args, <<>>)
    /\ reports' = Inc(reports)
    /\ pc' = "sleep"
    /\ UNCHANGED <<flags, args, fatalMsg, handler, connOpen, closeCalls, data, i,
                   inFlight, lastCall, err, response, requests, sleeps>>

\* lines 150-163: the response is decoded and printed
logReadSuccess ==
    /\ pc = "log"
    /\ ~err
    /\ args.Operation \in ReadOperations
    /\ ~Decode(response, args.Count, args.Unsigned).panic
    /\ lastLog' = SuccessLog(args, Decode(response, args.Count, args.Unsigned).values)
    /\ reports' = Inc(reports)
    /\ pc' = "sleep"
    /\ UNCHANGED <<flags, args, fatalMsg, handler, connOpen, closeCalls, data, i,
                   inFlight, lastCall, err, response, requests, sleeps>>

\* lines 153-154 and 159-160: a run-time panic leaves the loop and unwinds main
decodePanic ==
    /\ pc = "log"
    /\ ~err
    /\ args.Operation \in ReadOperations
    /\ Decode(response, args.Count, args.Unsigned).panic
    /\ pc' = "panic"
    /\ UNCHANGED <<flags, args, fatalMsg, handler, connOpen, closeCalls, data, i,
                   inFlight, lastCall, err, response, lastLog, requests, reports, sleeps>>

\* time.Sleep returns and the loop's post statement i++ runs; the iteration's
\* response and its printed line are behind (err keeps the last call's
\* result until the next call returns)
sleep ==
    /\ pc = "sleep"
    /\ sleeps' = Inc(sleeps)
    /\ i' = Inc(i)
    /\ response' = NoResponse
    /\ lastLog' = NoLog
    /\ pc' = "for"
    /\ UNCHANGED <<flags, args, fatalMsg, handler, connOpen, closeCalls, data,
                   inFlight, lastCall, err, requests, reports>>

----------------------------------------------------------------------------
(* Ways out of main *)

\* line 96: the deferred handler.Close()
Close ==
    /\ handler' = "closed"
    /\ connOpen' = FALSE
    /\ closeCalls' = closeCalls + 1

\* the loop function returns, main returns, the deferred call runs
returnMain ==
    /\ pc = "return"
    /\ Close
    /\ pc' = "exited"
    /\ UNCHANGED <<flags, args, fatalMsg, data, i, inFlight, lastCall, err, response,
                   lastLog, requests, reports, sleeps>>

\* a panic runs the deferred call while unwinding, then the process dies
panicUnwind ==
    /\ pc = "panic"
    /\ Close
    /\ pc' = "crashed"
    /\ UNCHANGED <<flags, args, fatalMsg, data, i, inFlight, lastCall, err, response,
                   lastLog, requests, reports, sleeps>>

\* interrupt that is only noticed while the loop sleeps
interrupt_OnlyWhileSleeping ==
    /\ pc = "sleep"
    /\ pc' = "killed"
    /\ UNCHANGED <<flags, args, fatalMsg, handler, connOpen, closeCalls, data, i,
                   inFlight, lastCall, err, response, lastLog, requests, reports, sleeps>>

\* an interrupt signal: main installs no handler, so the process is ended
\* where it stands and nothing of the program runs any more
interrupt ==
    /\ pc \notin {"exited", "crashed", "fatal", "killed"}
    /\ pc' = "killed"
    /\ UNCHANGED <<flags, args, fatalMsg, handler, connOpen, closeCalls, data, i,
                   inFlight, lastCall, err, response, lastLog, requests, reports, sleeps>>

----------------------------------------------------------------------------
(* Specification *)

Init ==
    /\ flags \in CommandLines
    /\ args = ZeroArgs
    /\ pc = "parseFlags"
    /\ fatalMsg = "none"
    /\ handler = "none"
    /\ connOpen = FALSE
    /\ closeCalls = 0
    /\ data = <<>>
    /\ i = 0
    /\ inFlight = 0
    /\ lastCall = NoCall
    /\ err = FALSE
    /\ response = NoResponse
    /\ lastLog = NoLog
    /\ requests = 0
    /\ reports = 0
    /\ sleeps = 0

Next ==
    \/ parseFlags
    \/ createModbusClient
    \/ switchOperation
    \/ switchDefault
    \/ forTest
    \/ callTransport
    \/ transportError
    \/ transportSuccess
    \/ logError
    \/ logWriteSuccess
    \/ logReadSuccess
    \/ decodePanic
    \/ sleep
    \/ returnMain
    \/ panicUnwind
    \/ interrupt

Spec == Init /\ [][Next]_vars

TypeOK ==
    /\ pc \in {"parseFlags", "createModbusClient", "switch", "for", "call", "wait",
               "log", "sleep", "return", "panic"} \cup Terminated
    /\ handler \in {"none", "created", "closed"}
    /\ inFlight \in 0..1
    /\ requests \in 0..CounterCap /\ reports \in 0..CounterCap /\ sleeps \in 0..CounterCap

----------------------------------------------------------------------------
(* Properties *)

\* states after the loop function has been left without an interrupt
LoopLeft == {"return", "exited", "panic", "crashed"}

\* a read iteration whose call returned without error and has been handled
ReadDone ==
    /\ pc = "sleep"
    /\ ~err
    /\ args.Operation \in ReadOperations

\* the k-th big-endian word of a payload, computed from its bytes
WordAt(payload, k) == payload[2 * k - 1] * 256 + payload[2 * k]

\* C1: with repeat = N > 0 every operation kind makes exactly N transport
\* calls and prints exactly N outcomes before it leaves its loop, whatever the
\* calls return (stated here for the runs whose last payload, if any, has an
\* even number of bytes).
C1_ExactlyNOutcomes ==
    (flags.repeat > 0 /\ pc \in LoopLeft /\ Len(response.data) % 2 = 0) =>
        (requests = flags.repeat /\ reports = flags.repeat)

\* C2: with repeat <= 0 the loop is left only by an interrupt: the program
\* never returns from it and never crashes out of it (stated here for the
\* runs whose last payload, if any, has an even number of bytes).
C2_UnboundedNeverStops ==
    (flags.repeat <= 0 /\ Len(response.data) % 2 = 0) => pc \notin LoopLeft

\* C3: a transport error never aborts the loop.  From the iteration whose call
\* returned an error the program can only go on (or be interrupted): the
\* error is printed as that iteration's one outcome, the sleep completes, the
\* loop test passes while the budget allows, and the next call is issued.
C3_ErrorDoesNotAbort ==
    [][ /\ (pc = "log" /\ err /\ pc' # "killed") =>
              /\ pc' = "sleep"
              /\ lastLog'.kind \in ErrorKinds
              /\ reports' = Inc(reports)
              /\ requests' = requests
        /\ (pc = "sleep" /\ err /\ pc' # "killed") =>
              /\ pc' = "for"
              /\ sleeps' = Inc(sleeps)
              /\ i' = Inc(i)
        /\ (pc = "for" /\ err /\ (args.Repeat <= 0 \/ i < args.Repeat) /\ pc' # "killed") =>
              pc' = "call"
        /\ (pc = "call" /\ err /\ pc' # "killed") =>
              /\ pc' = "wait"
              /\ requests' = Inc(requests)
              /\ inFlight' = 1
              /\ lastCall'.prim # "none"
      ]_vars

\* C3 witness: the first iteration failed, was reported and slept, and the
\* request of the second iteration is on its way.
C3_Witness ==
    /\ pc = "wait"
    /\ err
    /\ requests = 2
    /\ reports = 1
    /\ sleeps = 1
    /\ args.Operation = "write_multiple_registers"

C5_ClosedOnceOnEveryExit ==
    /\ closeCalls <= 1
    /\ (pc \in Terminated /\ requests > 0) => (closeCalls = 1 /\ ~connOpen)

\* C6: a read that returns no error but an odd number of bytes is reported as
\* an error without values, and never crashes the program.
C6_OddPayloadReportedAsError ==
    /\ (ReadDone /\ Len(response.data) % 2 = 1) =>
          (lastLog.kind \in ErrorKinds /\ lastLog.values = <<>>)
    /\ pc \in {"panic", "crashed"} => Len(response.data) % 2 = 0

\* C7: a successful read of an even-length payload P reports exactly
\* Len(P)/2 values, the k-th being the k-th big-endian word of P (read as
\* signed or unsigned), whatever count was asked for.
C7_ReportsEveryWordOfPayload ==
    /\ (ReadDone /\ Len(response.data) % 2 = 0 /\ Len(response.data) > 0) =>
          /\ Len(lastLog.values) = Len(response.data) \div 2
          /\ \A k \in 1..(Len(response.data) \div 2) :
                lastLog.values[k] =
                    IF args.Unsigned \/ WordAt(response.data, k) < 32768
                    THEN WordAt(response.data, k)
                    ELSE WordAt(response.data, k) - 65536
    /\ pc \in {"panic", "crashed"} => Len(response.data) % 2 = 1

\* C8: encoding the values an unsigned read reports for an even-length
\* payload P gives back P byte for byte.
C8_EncodeOfDecodeIsPayload ==
    (ReadDone /\ args.Unsigned /\ Len(response.data) % 2 = 0 /\ Len(response.data) > 0) =>
        EncodeValues(lastLog.values) = response.data

\* C9: every word w of a read payload that is reported is reported as w in
\* unsigned mode, and in signed mode as w below 0x8000 and w - 65536 from
\* 0x8000 on: the signed report is congruent to w modulo 65536 and equals w
\* exactly when the high bit of the word's first byte is clear.
C9_SignedAndUnsignedReports ==
    ReadDone =>
        \A k \in 1..(Len(response.data) \div 2) :
            k <= Len(lastLog.values) =>
                /\ args.Unsigned =>
                      /\ lastLog.values[k] = WordAt(response.data, k)
                      /\ lastLog.values[k] \in 0..65535
                /\ ~args.Unsigned =>
                      /\ lastLog.values[k] \in -32768..32767
                      /\ (lastLog.values[k] - WordAt(response.data, k)) % 65536 = 0
                      /\ (lastLog.values[k] = WordAt(response.data, k))
                            <=> (response.data[2 * k - 1] < 128)
                      /\ WordAt(response.data, k) >= 32768 =>
                            lastLog.values[k] = WordAt(response.data, k) - 65536

\* C9 witness: a signed read has reported the word 0x8000 as -32768.
C9_Witness ==
    /\ ReadDone
    /\ ~args.Unsigned
    /\ Len(response.data) >= 2
    /\ WordAt(response.data, 1) = 32768
    /\ lastLog.values[1] = -32768

\* C10: in signed mode a --value or --values entry outside [-32768, 32767]
\* is accepted and stored as its value modulo 65536.
C10_SignedOutOfRangeWraps ==
    (/\ ~flags.unsigned
     /\ flags.server # ""
     /\ pc # "parseFlags"
     /\ \/ flags.value \notin -32768..32767
        \/ \E k \in 1..Len(flags.values) : flags.values[k] \notin -32768..32767) =>
        /\ fatalMsg \notin {"Invalid value", "Invalid value in 'values'"}
        /\ handler # "none" =>
              /\ args.Value = flags.value % 65536
              /\ args.Values = [k \in 1..Len(flags.values) |-> flags.values[k] % 65536]


\* C11: write_multiple_coils / write_multiple_registers with an empty value
\* sequence never reaches the transport: no call with quantity 0 and an empty
\* data block is issued.
C11_EmptyValuesRejected ==
    (flags.operation \in MultiWriteOperations /\ flags.values = <<>> /\ flags.server # "") =>
        /\ requests = 0
        /\ lastCall = NoCall


\* C12: an interrupt can end the loop between iterations and during the
\* sleep; the step that ends it issues no request and prints nothing, and
\* once the process is ended nothing changes any more, whatever the repeat
\* count.
C12_InterruptTerminates ==
    /\ [](pc \in {"for", "call", "sleep"} => ENABLED interrupt)
    /\ [][ /\ (pc' = "killed" /\ pc # "killed") =>
                 /\ pc \in {"parseFlags", "createModbusClient", "switch", "for", "call",
                            "wait", "log", "sleep", "return", "panic"}
                 /\ requests' = requests
                 /\ reports' = reports
                 /\ inFlight' = inFlight
                 /\ lastCall' = lastCall
                 /\ lastLog' = lastLog
           /\ pc = "killed" => UNCHANGED vars
         ]_vars

\* C12 witness: a loop without an iteration budget was interrupted during
\* the sleep that follows a printed outcome.
C12_Witness ==
    /\ pc = "killed"
    /\ flags.repeat <= 0
    /\ lastLog.kind # "none"
    /\ requests = 2
    /\ reports = 2


\* the primitive that belongs to each operation name
PrimitiveOf ==
    [o \in Operations |->
        CASE o = "read_coils" -> "ReadCoils"
          [] o = "read_discrete_inputs" -> "ReadDiscreteInputs"
          [] o = "read_holding_registers" -> "ReadHoldingRegisters"
          [] o = "read_input_registers" -> "ReadInputRegisters"
          [] o = "write_single_coil" -> "WriteSingleCoil"
          [] o = "write_single_register" -> "WriteSingleRegister"
          [] o = "write_multiple_coils" -> "WriteMultipleCoils"
          [] o = "write_multiple_registers" -> "WriteMultipleRegisters"]

\* positions inside an iteration after its call has been issued
CallIssued == {"wait", "log", "sleep", "panic"}

\* C13: every iteration issues exactly one transport call, the primitive of
\* the configured operation name: a read with (start, count), a single write
\* with (start, value), a multi write with (start, number of values, data
\* block).  Before the call of an iteration as many calls have been issued as
\* iterations have ended, after it one more, and never two at once.
C13_OneMatchingCallPerIteration ==
    /\ pc \in {"for", "call", "return"} => requests = i
    /\ pc \in CallIssued =>
          /\ requests = Inc(i)
          /\ lastCall.prim = PrimitiveOf[flags.operation]
          /\ lastCall.address = flags.start
          /\ flags.operation \in ReadOperations =>
                lastCall.quantity = flags.count
          /\ flags.operation \in SingleWriteOperations =>
                lastCall.value = args.Value
          /\ flags.operation \in MultiWriteOperations =>
                /\ lastCall.quantity = Len(args.Values)
                /\ lastCall.data = data
                /\ Len(lastCall.data) = 2 * Len(args.Values)
    /\ inFlight \in 0..1
    /\ requests > 0 => lastCall.prim = PrimitiveOf[flags.operation]

\* C13 witness: the second iteration of a discrete-input read has its call
\* in flight.
C13_Witness ==
    /\ pc = "wait"
    /\ flags.operation = "read_discrete_inputs"
    /\ requests = 2
    /\ lastCall.prim = "ReadDiscreteInputs"
    /\ lastCall.quantity = flags.count


\* C14: the call of write_multiple_coils / write_multiple_registers with
\* values v1..vn carries quantity n and a data block of 2n bytes, bytes 2k-1
\* and 2k (counted from 1) being the high and low byte of vk modulo 65536, in
\* the order the values were given.
C14_DataBlockIsBigEndianWords ==
    (flags.operation \in MultiWriteOperations /\ pc \in CallIssued) =>
        /\ lastCall.quantity = Len(flags.values)
        /\ Len(lastCall.data) = 2 * Len(flags.values)
        /\ \A k \in 1..Len(flags.values) :
              /\ lastCall.data[2 * k - 1] = (flags.values[k] % 65536) \div 256
              /\ lastCall.data[2 * k] = (flags.values[k] % 65536) % 256

\* C14 witness: the signed values 1, -1 are on their way as 00 01 FF FF.
C14_Witness ==
    /\ pc = "wait"
    /\ flags.operation = "write_multiple_registers"
    /\ ~flags.unsigned
    /\ flags.values = <<1, -1>>
    /\ lastCall.quantity = 2
    /\ lastCall.data = <<0, 1, 255, 255>>


\* C15: the loop never changes the request.  Once the first call has been
\* issued every later call is the same call (primitive, start address,
\* quantity, value, data block), and inside the loop the parsed arguments and
\* the data block stay as they were, whatever the calls return.
C15_RequestUnchangedByLoop ==
    [][ /\ lastCall # NoCall => lastCall' = lastCall
        /\ pc \in {"for", "call", "wait", "log", "sleep"} =>
              (args' = args /\ data' = data /\ flags' = flags)
      ]_vars

\* C15 witness: after a read that returned a payload, the call of the second
\* iteration is in flight.
C15_Witness ==
    /\ pc = "wait"
    /\ flags.operation = "read_holding_registers"
    /\ ~err
    /\ requests = 2
    /\ reports = 1
    /\ lastCall.address = flags.start


\* C16: iterations are strictly sequential.  At most one call is in flight,
\* and only while the loop waits for it; a call is issued only when every
\* earlier call has been reported and slept after; inside an iteration the
\* order is call, then report, then sleep.
C16_StrictlySequential ==
    /\ inFlight \in 0..1
    /\ inFlight = 1 => pc \in {"wait", "killed"}
    /\ pc \in {"for", "call"} =>
          (requests = reports /\ reports = sleeps /\ lastLog = NoLog)
    /\ pc = "wait" =>
          (inFlight = 1 /\ requests = Inc(reports) /\ reports = sleeps /\ lastLog = NoLog)
    /\ pc = "log" =>
          (inFlight = 0 /\ requests = Inc(reports) /\ reports = sleeps /\ lastLog = NoLog)
    /\ pc = "sleep" =>
          (inFlight = 0 /\ requests = reports /\ requests = Inc(sleeps) /\ lastLog # NoLog)

\* C16 witness: the second call of a register write is in flight after the
\* first was reported and slept after.
C16_Witness ==
    /\ pc = "wait"
    /\ flags.operation = "write_single_register"
    /\ inFlight = 1
    /\ requests = 2
    /\ reports = 1
    /\ sleeps = 1


\* C17: the sleep follows every iteration, the last one included: with
\* repeat = N > 0 the loop function is left only after N completed sleeps,
\* whether the final iteration succeeded or failed (stated here for the runs
\* whose last payload, if any, has an even number of bytes).
C17_SleepsNTimes ==
    (flags.repeat > 0 /\ pc \in LoopLeft /\ Len(response.data) % 2 = 0) =>
        sleeps = flags.repeat

\* The part of C17 that the loop's own exit obeys: a loop left through its
\* condition has slept once per iteration.
SleepsBeforeReturn ==
    (flags.repeat > 0 /\ pc \in {"return", "exited"}) =>
        (sleeps = flags.repeat /\ reports = flags.repeat /\ lastLog = NoLog)


\* C18: write_single_coil hands the configured value, as its 16-bit pattern,
\* to the transport unchanged in every iteration: it is neither normalised to
\* 0x0000 / 0xFF00 nor rejected once parseFlags has accepted it, and the
\* success line shows the same value.
C18_CoilValuePassedThrough ==
    flags.operation = "write_single_coil" =>
        /\ pc \in CallIssued =>
              /\ lastCall.prim = "WriteSingleCoil"
              /\ lastCall.value = flags.value % 65536
        /\ (pc = "sleep" /\ ~err) =>
              lastLog = [kind |-> "Successfully wrote single coil",
                         values |-> <<flags.value % 65536>>]
        /\ pc = "fatal" => handler = "none"

\* C18 witness: the value 1, neither 0x0000 nor 0xFF00, was written and
\* reported in a second iteration.
C18_Witness ==
    /\ flags.operation = "write_single_coil"
    /\ pc = "sleep"
    /\ ~err
    /\ requests = 2
    /\ lastCall.value = 1
    /\ lastLog.values = <<1>>


\* C19: a read that is reported always shows exactly count entries.  For a
\* payload of even length 2m it is reported only when m <= count, the first m
\* entries being its words and the other count - m entries 0; with m > count
\* the iteration prints nothing and panics, which ends the loop.
C19_ReportHasCountEntries ==
    /\ ReadDone =>
          /\ Len(lastLog.values) = flags.count
          /\ Len(response.data) % 2 = 0 =>
                /\ Len(response.data) \div 2 <= flags.count
                /\ \A k \in 1..flags.count :
                      lastLog.values[k] =
                          IF k > Len(response.data) \div 2 THEN 0
                          ELSE IF flags.unsigned \/ WordAt(response.data, k) < 32768
                          THEN WordAt(response.data, k)
                          ELSE WordAt(response.data, k) - 65536
    /\ (pc \in {"panic", "crashed"} /\ Len(response.data) % 2 = 0) =>
          /\ Len(response.data) \div 2 > flags.count
          /\ ~err
          /\ flags.operation \in ReadOperations
          /\ lastLog = NoLog
    /\ pc = "crashed" => (closeCalls = 1 /\ lastLog = NoLog)

\* C19 witness: count = 2 and a one-word payload FF FF, reported unsigned as
\* 65535 followed by a 0 that is not in the payload.
C19_Witness ==
    /\ ReadDone
    /\ flags.unsigned
    /\ flags.count = 2
    /\ response.data = <<255, 255>>
    /\ lastLog.values = <<65535, 0>>

====
